---- MODULE Spec2Model ----
(***************************************************************************)
(* mtschem-tools: the MTS schematic codec (mts_parser.py), the validator   *)
(* (validators.py) and the generator (generators.py), as a state machine   *)
(* over one file on disk.  A file is a sequence of bytes; every operation  *)
(* of the three classes is an action that reads or writes that file and    *)
(* leaves its result in `last` (or `gen` for the generator).               *)
(***************************************************************************)
EXTENDS Integers, Sequences, FiniteSets, TLC

\* ------------------------------------------------------------------ bounds
\* Largest legal dimension the generator actions are called with.
MaxDim == 2
\* Largest number of palette names a template holds.
MaxNodes == 2
\* Largest number of voxel triples a template's 'data' holds.
MaxData == 1

\* ------------------------------------------------------- program constants
\* validators.py: "if file_size < 20"
MinFileSize == 20
\* generators.py / validators.py: the largest value of a '>H' field
MaxU16 == 65535
\* generators.py: y-probability written for every layer
YProbDefault == 127

\* ------------------------------------------------------------ byte helpers
Min(a, b) == IF a < b THEN a ELSE b

Max(a, b) == IF a > b THEN a ELSE b

\* b'\x00' * n
Zeros(n) == [i \in 1..Max(n, 0) |-> 0]

\* bytes([v] * n)
Rep(v, n) == [i \in 1..Max(n, 0) |-> v]

RECURSIVE Concat(_)
\* the concatenation of a sequence of byte strings (successive output.write)
Concat(ss) == IF ss = <<>> THEN <<>> ELSE Head(ss) \o Concat(Tail(ss))

\* b'MTSM'
MTSM == <<77, 84, 83, 77>>

\* struct.pack('>H', v): two bytes, big-endian; struct.error outside 0..65535
PackOk(v) == v >= 0 /\ v <= MaxU16

PackH(v) == <<v \div 256, v % 256>>

\* struct.unpack('>H', two bytes)[0]
UnpackH(bs) == bs[1] * 256 + bs[2]

\* f.read(n) at position pos of an opened file: the bytes actually there
Read(bytes, pos, n) ==
    IF pos >= Len(bytes) \/ n <= 0 THEN <<>>
    ELSE SubSeq(bytes, pos + 1, Min(pos + n, Len(bytes)))

\* ------------------------------------------------------------------ UTF-8
\* A name is a sequence of Unicode code points; the file holds its UTF-8 bytes.

\* str.encode('latin-1'): one byte per code point
Latin1Encode(name) == name

RECURSIVE Utf8Encode(_)
\* str.encode('utf-8') for code points below the surrogate range
Utf8Encode(name) ==
    IF name = <<>> THEN <<>>
    ELSE LET c == Head(name)
             enc == IF c < 128 THEN <<c>>
                    ELSE IF c < 2048 THEN <<192 + (c \div 64), 128 + (c % 64)>>
                    ELSE <<224 + (c \div 4096), 128 + ((c \div 64) % 64), 128 + (c % 64)>>
         IN enc \o Utf8Encode(Tail(name))

IsCont(b) == b >= 128 /\ b <= 191

\* the range the byte after lead byte b must lie in (Unicode table 3-7)
SecondLo(b) == IF b = 224 THEN 160 ELSE IF b = 240 THEN 144 ELSE 128

SecondHi(b) == IF b = 237 THEN 159 ELSE IF b = 244 THEN 143 ELSE 191

\* how many continuation bytes lead byte b announces (0: not a lead byte)
Utf8Need(b) ==
    IF b >= 194 /\ b <= 223 THEN 1
    ELSE IF b >= 224 /\ b <= 239 THEN 2
    ELSE IF b >= 240 /\ b <= 244 THEN 3
    ELSE 0

\* how many of the bytes after the lead byte at index i are acceptable
Utf8Have(bs, i) ==
    LET b == bs[i]
        need == Utf8Need(b)
        ok1 == need >= 1 /\ i + 1 <= Len(bs)
               /\ bs[i + 1] >= SecondLo(b) /\ bs[i + 1] <= SecondHi(b)
        ok2 == ok1 /\ need >= 2 /\ i + 2 <= Len(bs) /\ IsCont(bs[i + 2])
        ok3 == ok2 /\ need >= 3 /\ i + 3 <= Len(bs) /\ IsCont(bs[i + 3])
    IN IF ok3 THEN 3 ELSE IF ok2 THEN 2 ELSE IF ok1 THEN 1 ELSE 0

Utf8CodePoint(bs, i) ==
    LET b == bs[i]
        need == Utf8Need(b)
    IN IF need = 1 THEN (b - 192) * 64 + (bs[i + 1] - 128)
       ELSE IF need = 2
            THEN (b - 224) * 4096 + (bs[i + 1] - 128) * 64 + (bs[i + 2] - 128)
       ELSE (b - 240) * 262144 + (bs[i + 1] - 128) * 4096
            + (bs[i + 2] - 128) * 64 + (bs[i + 3] - 128)

RECURSIVE Utf8DecodeFrom(_, _)
Utf8DecodeFrom(bs, i) ==
    IF i > Len(bs) THEN <<>>
    ELSE LET b == bs[i]
             need == Utf8Need(b)
             have == Utf8Have(bs, i)
         IN IF b < 128 THEN <<b>> \o Utf8DecodeFrom(bs, i + 1)
            ELSE IF need > 0 /\ have = need
                 THEN <<Utf8CodePoint(bs, i)>> \o Utf8DecodeFrom(bs, i + 1 + need)
            \* errors='ignore': the ill-formed run is dropped
            ELSE Utf8DecodeFrom(bs, i + 1 + have)

\* bytes.decode('utf-8', errors='ignore')
Utf8DecodeIgnore(bs) == Utf8DecodeFrom(bs, 1)

\* ------------------------------------------------------------------- zlib
\* zlib.compress / zlib.decompress on the streams this repository writes: a
\* two-byte zlib header, one final fixed-Huffman deflate block, the Adler-32
\* of the payload.  Bits are 0/1 in the order they enter the stream.

RECURSIVE MsbBits(_, _)
\* a Huffman code: n bits, most significant first
MsbBits(v, n) == IF n = 0 THEN <<>> ELSE MsbBits(v \div 2, n - 1) \o <<v % 2>>

RECURSIVE LsbBits(_, _)
\* an extra-bits field: n bits, least significant first
LsbBits(v, n) == IF n = 0 THEN <<>> ELSE <<v % 2>> \o LsbBits(v \div 2, n - 1)

\* RFC 1951 3.2.5: base length and extra bits of length codes 257..285
LenBase == <<3, 4, 5, 6, 7, 8, 9, 10, 11, 13, 15, 17, 19, 23, 27, 31, 35, 43,
             51, 59, 67, 83, 99, 115, 131, 163, 195, 227, 258>>

LenExtra == <<0, 0, 0, 0, 0, 0, 0, 0, 1, 1, 1, 1, 2, 2, 2, 2, 3, 3, 3, 3,
              4, 4, 4, 4, 5, 5, 5, 5, 0>>

\* RFC 1951 3.2.5: base distance and extra bits of distance codes 0..29
DistBase == <<1, 2, 3, 4, 5, 7, 9, 13, 17, 25, 33, 49, 65, 97, 129, 193, 257,
              385, 513, 769, 1025, 1537, 2049, 3073, 4097, 6145, 8193, 12289,
              16385, 24577>>

DistExtra == <<0, 0, 0, 0, 1, 1, 2, 2, 3, 3, 4, 4, 5, 5, 6, 6, 7, 7, 8, 8,
               9, 9, 10, 10, 11, 11, 12, 12, 13, 13>>

\* RFC 1951 3.2.6: the fixed Huffman code of literal/length symbol s
FixedCode(s) ==
    IF s < 144 THEN MsbBits(48 + s, 8)
    ELSE IF s < 256 THEN MsbBits(400 + (s - 144), 9)
    ELSE IF s < 280 THEN MsbBits(s - 256, 7)
    ELSE MsbBits(192 + (s - 280), 8)

\* the index of the length code that holds match length n (3..258)
LenIndex(n) ==
    IF n = 258 THEN 29
    ELSE CHOOSE i \in 1..28 : LenBase[i] <= n /\ n < LenBase[i + 1]

\* a match of length n at distance 1
MatchBits(n) ==
    LET i == LenIndex(n)
    IN FixedCode(256 + i) \o LsbBits(n - LenBase[i], LenExtra[i]) \o MsbBits(0, 5)

RECURSIVE DeflateZeros(_, _)
\* deflate's tokens for a payload of n zero bytes, from position pos: the first
\* two bytes are literals (no match can start before position 2), then
\* matches of up to 258 bytes at distance 1, a tail shorter than 3 as literals
DeflateZeros(n, pos) ==
    IF pos >= n THEN <<>>
    ELSE IF pos >= 2 /\ n - pos >= 3
         THEN MatchBits(Min(258, n - pos)) \o DeflateZeros(n, pos + Min(258, n - pos))
    ELSE FixedCode(0) \o DeflateZeros(n, pos + 1)

RECURSIVE PackBits(_)
\* bits to bytes, first bit in the least significant position, zero padded
PackBits(bits) ==
    IF bits = <<>> THEN <<>>
    ELSE LET b(i) == IF i <= Len(bits) THEN bits[i] ELSE 0
             byte == b(1) + 2 * b(2) + 4 * b(3) + 8 * b(4) + 16 * b(5)
                     + 32 * b(6) + 64 * b(7) + 128 * b(8)
         IN <<byte>> \o (IF Len(bits) <= 8 THEN <<>>
                         ELSE PackBits(SubSeq(bits, 9, Len(bits))))

RECURSIVE UnpackBits(_)
UnpackBits(bytes) ==
    IF bytes = <<>> THEN <<>>
    ELSE LsbBits(Head(bytes), 8) \o UnpackBits(Tail(bytes))

RECURSIVE WeightedSum(_, _, _, _)
\* the sum over i in lo..hi of data[i] * (w - i), halving the range
WeightedSum(data, lo, hi, w) ==
    IF lo > hi THEN 0
    ELSE IF lo = hi THEN data[lo] * (w - lo)
    ELSE LET mid == (lo + hi) \div 2
         IN WeightedSum(data, lo, mid, w) + WeightedSum(data, mid + 1, hi, w)

RECURSIVE ByteSum(_, _, _)
\* the sum of data[lo..hi], halving the range
ByteSum(data, lo, hi) ==
    IF lo > hi THEN 0
    ELSE IF lo = hi THEN data[lo]
    ELSE LET mid == (lo + hi) \div 2
         IN ByteSum(data, lo, mid) + ByteSum(data, mid + 1, hi)

\* Adler-32: a = 1 + the sum of the bytes, b = the sum of the successive a's,
\* both modulo 65521; the checksum is b then a, as four big-endian bytes
Adler32(data) ==
    LET n == Len(data)
        a == (1 + ByteSum(data, 1, n)) % 65521
        b == (n + WeightedSum(data, 1, n, n + 1)) % 65521
    IN PackH(b) \o PackH(a)

\* the FLG byte zlib writes after CMF = 0x78 for a compression level
ZlibFlg(level) == IF level >= 7 THEN 218 ELSE IF level = 6 THEN 156 ELSE 94

\* zlib.compress(payload, level) for an all-zero payload
ZlibCompress(payload, level) ==
    <<120, ZlibFlg(level)>>
    \o PackBits(<<1, 1, 0>> \o DeflateZeros(Len(payload), 0) \o FixedCode(256))
    \o Adler32(payload)

RECURSIVE BitsMsb(_, _, _)
\* the value of the n bits from index p, most significant first
BitsMsb(bits, p, n) ==
    IF n = 0 THEN 0 ELSE 2 * BitsMsb(bits, p, n - 1) + bits[p + n - 1]

RECURSIVE BitsLsb(_, _, _)
\* the value of the n bits from index p, least significant first
BitsLsb(bits, p, n) ==
    IF n = 0 THEN 0 ELSE bits[p] + 2 * BitsLsb(bits, p + 1, n - 1)

InflateFail == [ok |-> FALSE, p |-> 0, out |-> <<>>]

\* the fixed-Huffman symbol at bit index p: [ok, sym, p after it]
FixedSymbol(bits, p) ==
    LET avail == Len(bits) - p + 1
        v7 == BitsMsb(bits, p, 7)
        v8 == BitsMsb(bits, p, 8)
        v9 == BitsMsb(bits, p, 9)
    IN IF avail < 7 THEN [ok |-> FALSE, sym |-> 0, p |-> p]
       ELSE IF v7 <= 23 THEN [ok |-> TRUE, sym |-> 256 + v7, p |-> p + 7]
       ELSE IF avail < 8 THEN [ok |-> FALSE, sym |-> 0, p |-> p]
       ELSE IF v8 >= 48 /\ v8 <= 191 THEN [ok |-> TRUE, sym |-> v8 - 48, p |-> p + 8]
       ELSE IF v8 >= 192 /\ v8 <= 199
            THEN [ok |-> TRUE, sym |-> 280 + (v8 - 192), p |-> p + 8]
       ELSE IF avail < 9 THEN [ok |-> FALSE, sym |-> 0, p |-> p]
       ELSE [ok |-> TRUE, sym |-> 144 + (v9 - 400), p |-> p + 9]

\* LZ77 copy: n bytes from dist back; a run longer than dist repeats itself
CopyMatch(out, dist, n) ==
    out \o [k \in 1..n |-> out[Len(out) - dist + 1 + ((k - 1) % dist)]]

RECURSIVE InflateFixed(_, _, _)
\* the symbols of one fixed-Huffman block, to its end-of-block symbol
InflateFixed(bits, p, out) ==
    LET s == FixedSymbol(bits, p)
    IN IF ~s.ok \/ s.sym > 285 THEN InflateFail
       ELSE IF s.sym = 256 THEN [ok |-> TRUE, p |-> s.p, out |-> out]
       ELSE IF s.sym < 256 THEN InflateFixed(bits, s.p, Append(out, s.sym))
       ELSE LET i == s.sym - 256
                pd == s.p + LenExtra[i]
                have == Len(bits) - s.p + 1 >= LenExtra[i] + 5
                n == LenBase[i] + BitsLsb(bits, s.p, LenExtra[i])
                dc == BitsMsb(bits, pd, 5)
                pe == pd + 5
                haveD == dc <= 29 /\ Len(bits) - pe + 1 >= DistExtra[dc + 1]
                dist == DistBase[dc + 1] + BitsLsb(bits, pe, DistExtra[dc + 1])
            IN IF ~have THEN InflateFail
               ELSE IF ~haveD THEN InflateFail
               ELSE IF dist > Len(out) THEN InflateFail
               ELSE InflateFixed(bits, pe + DistExtra[dc + 1], CopyMatch(out, dist, n))

\* the first bit index of the byte at or after bit index p
AlignByte(p) == ((p + 6) \div 8) * 8 + 1

\* a stored block: LEN, NLEN, then LEN raw bytes, from the next byte boundary
InflateStored(bits, p, out) ==
    LET q == AlignByte(p)
        have == Len(bits) - q + 1 >= 32
        n == BitsLsb(bits, q, 16)
        nn == BitsLsb(bits, q + 16, 16)
        raw == [k \in 1..n |-> BitsLsb(bits, q + 32 + 8 * (k - 1), 8)]
    IN IF ~have THEN InflateFail
       ELSE IF n + nn # 65535 THEN InflateFail
       ELSE IF Len(bits) - (q + 32) + 1 < 8 * n THEN InflateFail
       ELSE [ok |-> TRUE, p |-> q + 32 + 8 * n, out |-> out \o raw]

RECURSIVE InflateBlocks(_, _, _)
\* the deflate blocks from bit index p, to the end of the final one.  Blocks
\* with dynamic Huffman codes (BTYPE 2) are outside what is modelled and are
\* reported as undecodable; BTYPE 3 is an error of the format.
InflateBlocks(bits, p, out) ==
    IF Len(bits) - p + 1 < 3 THEN InflateFail
    ELSE LET bfinal == bits[p]
             btype == bits[p + 1] + 2 * bits[p + 2]
             r == IF btype = 1 THEN InflateFixed(bits, p + 3, out)
                  ELSE IF btype = 0 THEN InflateStored(bits, p + 3, out)
                  ELSE InflateFail
         IN IF ~r.ok THEN InflateFail
            ELSE IF bfinal = 1 THEN r
            ELSE InflateBlocks(bits, r.p, r.out)

\* zlib.decompress(data): [ok, data]; ok = FALSE stands for zlib.error.  Bytes
\* after the checksum are ignored, as zlib.decompress does.
ZlibDecompress(data) ==
    LET cmf == data[1]
        flg == data[2]
        headerOk == Len(data) >= 2 /\ cmf % 16 = 8 /\ cmf \div 16 <= 7
                    /\ (cmf * 256 + flg) % 31 = 0 /\ (flg \div 32) % 2 = 0
        bits == UnpackBits(SubSeq(data, 3, Len(data)))
        r == InflateBlocks(bits, 1, <<>>)
        at == 2 + (AlignByte(r.p) - 1) \div 8
        sum == SubSeq(data, at + 1, at + 4)
    IN IF ~headerOk THEN [ok |-> FALSE, data |-> <<>>]
       ELSE IF ~r.ok THEN [ok |-> FALSE, data |-> <<>>]
       ELSE IF Len(data) < at + 4 \/ sum # Adler32(r.out)
            THEN [ok |-> FALSE, data |-> <<>>]
       ELSE [ok |-> TRUE, data |-> r.out]

\* ------------------------------------------------------------- MTSParser
\* A file on disk is its byte sequence; an opened file adds the position.

\* a header parser that gives up on a wrong signature: fields left at zero
parse_header_strict(bytes) ==
    LET signature == Read(bytes, 0, 4)
        ok == signature = MTSM /\ Len(bytes) >= 12
    IN [signature |-> signature,
        signature_valid |-> signature = MTSM,
        version |-> IF ok THEN UnpackH(SubSeq(bytes, 5, 6)) ELSE 0,
        width |-> IF ok THEN UnpackH(SubSeq(bytes, 7, 8)) ELSE 0,
        height |-> IF ok THEN UnpackH(SubSeq(bytes, 9, 10)) ELSE 0,
        length |-> IF ok THEN UnpackH(SubSeq(bytes, 11, 12)) ELSE 0,
        volume |-> IF ok THEN UnpackH(SubSeq(bytes, 7, 8)) * UnpackH(SubSeq(bytes, 9, 10))
                              * UnpackH(SubSeq(bytes, 11, 12))
                   ELSE 0,
        file_size |-> Min(12, Len(bytes))]

\* MTSParser.parse_header: the returned dictionary
parse_header(bytes) ==
    LET signature == Read(bytes, 0, 4)
        version_bytes == Read(bytes, Len(signature), 2)
        version == IF Len(version_bytes) = 2 THEN UnpackH(version_bytes) ELSE 0
        dim_bytes == Read(bytes, Len(signature) + Len(version_bytes), 6)
        full == Len(dim_bytes) = 6
        width == IF full THEN UnpackH(SubSeq(dim_bytes, 1, 2)) ELSE 0
        height == IF full THEN UnpackH(SubSeq(dim_bytes, 3, 4)) ELSE 0
        length == IF full THEN UnpackH(SubSeq(dim_bytes, 5, 6)) ELSE 0
    IN [signature |-> signature,
        signature_valid |-> signature = MTSM,
        version |-> version,
        width |-> width,
        height |-> height,
        length |-> length,
        volume |-> width * height * length,
        file_size |-> Len(signature) + Len(version_bytes) + Len(dim_bytes)]

\* struct.unpack raises struct.error unless the buffer holds exactly the
\* bytes its format asks for
StructError(bs, size) == Len(bs) # size

\* what parse_header raises on an opened file: each unpack stands behind the
\* length test of its line
parse_header_raised(bytes) ==
    LET signature == Read(bytes, 0, 4)
        version_bytes == Read(bytes, Len(signature), 2)
        dim_bytes == Read(bytes, Len(signature) + Len(version_bytes), 6)
    IN IF \/ (Len(version_bytes) = 2 /\ StructError(version_bytes, 2))
          \/ (Len(dim_bytes) = 6 /\ StructError(dim_bytes, 6))
       THEN "struct.error" ELSE "none"

\* MTSParser.parse_yprobs: (yprobs, f.tell())
parse_yprobs(bytes) ==
    LET yprobs_size == parse_header(bytes).height
        yprobs_data == Read(bytes, 12, yprobs_size)
    IN [yprobs |-> IF Len(yprobs_data) = yprobs_size THEN yprobs_data ELSE <<>>,
        pos |-> 12 + Len(yprobs_data)]

\* a node count read that takes any bytes at all for a count
NodeCountMissing_EmptyOnly(nodecount_bytes) == Len(nodecount_bytes) = 0

\* len(nodecount_bytes) != 2
NodeCountMissing(nodecount_bytes) == Len(nodecount_bytes) # 2

RECURSIVE ReadNodes(_, _, _, _)
\* parse_nodelist's loop: `left` entries still to read from position pos
ReadNodes(bytes, pos, left, nodes) ==
    IF left = 0 THEN [nodes |-> nodes, pos |-> pos]
    ELSE LET namelen_bytes == Read(bytes, pos, 2)
             namelen == UnpackH(namelen_bytes)
             name_bytes == Read(bytes, pos + 2, namelen)
         IN IF Len(namelen_bytes) # 2
            THEN [nodes |-> nodes, pos |-> pos + Len(namelen_bytes)]
            ELSE IF Len(name_bytes) # namelen
                 THEN [nodes |-> nodes, pos |-> pos + 2 + Len(name_bytes)]
            ELSE ReadNodes(bytes, pos + 2 + namelen, left - 1,
                           Append(nodes, Utf8DecodeIgnore(name_bytes)))

\* MTSParser.parse_nodelist: (nodes, f.tell())
parse_nodelist(bytes) ==
    LET start == 12 + parse_header(bytes).height
        nodecount_bytes == Read(bytes, start, 2)
    IN IF NodeCountMissing(nodecount_bytes)
       THEN [nodes |-> <<>>, pos |-> start + Len(nodecount_bytes)]
       ELSE ReadNodes(bytes, start + 2, UnpackH(nodecount_bytes), <<>>)

RECURSIVE ReadNodesRaised(_, _, _)
\* what parse_nodelist's loop raises: the unpack of a name length stands
\* behind the length test that breaks the loop
ReadNodesRaised(bytes, pos, left) ==
    IF left = 0 THEN "none"
    ELSE LET namelen_bytes == Read(bytes, pos, 2)
         IN IF Len(namelen_bytes) # 2 THEN "none"
            ELSE IF StructError(namelen_bytes, 2) THEN "struct.error"
            ELSE LET namelen == UnpackH(namelen_bytes)
                     name_bytes == Read(bytes, pos + 2, namelen)
                 IN IF Len(name_bytes) # namelen THEN "none"
                    ELSE ReadNodesRaised(bytes, pos + 2 + namelen, left - 1)

\* what parse_nodelist raises on an opened file
parse_nodelist_raised(bytes) ==
    LET start == 12 + parse_header(bytes).height
        nodecount_bytes == Read(bytes, start, 2)
    IN IF parse_header_raised(bytes) # "none" THEN parse_header_raised(bytes)
       ELSE IF NodeCountMissing(nodecount_bytes) THEN "none"
       ELSE IF StructError(nodecount_bytes, 2) THEN "struct.error"
       ELSE ReadNodesRaised(bytes, start + 2, UnpackH(nodecount_bytes))

\* what get_metadata raises: whatever the three parsers it calls raise
get_metadata_raised(bytes) ==
    IF parse_header_raised(bytes) # "none" THEN parse_header_raised(bytes)
    ELSE parse_nodelist_raised(bytes)

\* the name 'air' as code points
Air == <<97, 105, 114>>

\* MTSParser.get_metadata
get_metadata(bytes) ==
    LET header == parse_header(bytes)
        yp == parse_yprobs(bytes)
        nl == parse_nodelist(bytes)
        file_size == Len(bytes)
    IN [header |-> header,
        yprobs |-> [values |-> yp.yprobs,
                    count |-> Len(yp.yprobs),
                    expected |-> header.height],
        nodelist |-> [nodes |-> nl.nodes,
                      count |-> Len(nl.nodes),
                      has_air |-> \E i \in 1..Len(nl.nodes) : nl.nodes[i] = Air],
        data_section |-> [offset |-> nl.pos,
                          compressed_size |-> file_size - nl.pos,
                          uncompressed_size_estimate |-> header.volume * 4]]

\* MTSParser.extract_compressed_data: f.seek(data_offset); f.read()
extract_compressed_data(bytes) ==
    LET data_offset == get_metadata(bytes).data_section.offset
    IN Read(bytes, data_offset, Len(bytes))

\* MTSParser.decompress_bulk_data: ok = FALSE stands for the None it returns
decompress_bulk_data(compressed_data) == ZlibDecompress(compressed_data)

\* ----------------------------------------------------------- MTSValidator
\* A violation is recorded by its category; the message's numbers are left out.

\* metadata = {}
EmptyMeta == [k \in {} |-> 0]

\* errors = [] ... errors.append(...) when the condition holds
ErrIf(cond, category) == IF cond THEN <<category>> ELSE <<>>

\* version not in [3, 4, 5]
SupportedVersions == {3, 4, 5}

\* the signature check of validate_file
SignatureBad(signature) == signature # MTSM

\* a version check that only has the lower bound
VersionBad_LowerOnly(version) == version < 3

\* the version check of validate_file
VersionBad(version) == version \notin SupportedVersions

\* a completeness check that only notices a read that returned nothing
YprobsIncomplete_EmptyOnly(yprobs_data, height) == Len(yprobs_data) = 0 /\ height # 0

\* len(yprobs_data) != metadata['dimensions'][1]
YprobsIncomplete(yprobs_data, height) == Len(yprobs_data) # height

\* compressed_size = file_size - current_pos, current_pos = f.tell() right
\* after the read of the node count
ValidatorCompressedSize(file_size, current_pos) == file_size - current_pos

\* compressed_size > estimated_uncompressed * 2
CompressedTooLarge(compressed_size, volume) == compressed_size > (volume * 4) * 2

\* violations reported as warnings, which a verdict could leave out
WarningLevel == {"extension", "version"}

\* a verdict that counts only the violations above warning level
Verdict_WarningsIgnored(errors, metadata) ==
    [valid |-> \A i \in 1..Len(errors) : errors[i] \in WarningLevel,
     errors |-> errors, metadata |-> metadata]

\* return len(errors) == 0, errors, metadata
Verdict(errors, metadata) ==
    [valid |-> Len(errors) = 0, errors |-> errors, metadata |-> metadata]

\* the body of validate_file for an existing file of at least 20 bytes
ValidateContent(bytes, mts_name) ==
    LET file_size == Len(bytes)
        e1 == ErrIf(~mts_name, "extension")
        signature == Read(bytes, 0, 4)
        e2 == ErrIf(SignatureBad(signature), "signature")
        p2 == Len(signature)
        version_bytes == Read(bytes, p2, 2)
        hasV == Len(version_bytes) = 2
        version == UnpackH(version_bytes)
        e3 == IF ~hasV THEN <<"version_unreadable">>
              ELSE ErrIf(VersionBad(version), "version")
        m3 == IF hasV THEN "version" :> version ELSE EmptyMeta
        p3 == p2 + Len(version_bytes)
        dim_bytes == Read(bytes, p3, 6)
        hasD == Len(dim_bytes) = 6
        width == UnpackH(SubSeq(dim_bytes, 1, 2))
        height == UnpackH(SubSeq(dim_bytes, 3, 4))
        length == UnpackH(SubSeq(dim_bytes, 5, 6))
        volume == width * height * length
        e4 == IF ~hasD THEN <<"dimensions_unreadable">>
              ELSE ErrIf(width = 0 \/ height = 0 \/ length = 0, "zero_dimension")
                   \o ErrIf(width > MaxU16 \/ height > MaxU16 \/ length > MaxU16,
                            "dimension_too_large")
        m4 == IF hasD
              THEN m3 @@ ("dimensions" :> <<width, height, length>>)
                      @@ ("volume" :> volume)
              ELSE m3
        p4 == p3 + Len(dim_bytes)
        yprobs_data == IF hasD THEN Read(bytes, p4, height) ELSE <<>>
        fullY == hasD /\ ~YprobsIncomplete(yprobs_data, height)
        e5 == ErrIf(hasD /\ ~fullY, "yprobs_incomplete")
        m5 == IF fullY THEN m4 @@ ("yprobs_length" :> Len(yprobs_data)) ELSE m4
        p5 == p4 + Len(yprobs_data)
        nodecount_bytes == Read(bytes, p5, 2)
        hasN == Len(nodecount_bytes) = 2
        e6 == ErrIf(~hasN, "node_count_unreadable")
        m6 == IF hasN THEN m5 @@ ("node_count" :> UnpackH(nodecount_bytes)) ELSE m5
        current_pos == p5 + Len(nodecount_bytes)
        compressed_size == ValidatorCompressedSize(file_size, current_pos)
        m7 == m6 @@ ("compressed_data_size" :> compressed_size)
        e7 == ErrIf(hasD /\ CompressedTooLarge(compressed_size, volume),
                    "compressed_too_large")
        errors == e1 \o e2 \o e3 \o e4 \o e5 \o e6 \o e7
        expected_min_size == 12 + height + 2
        e8 == ErrIf(Len(errors) = 0 /\ hasD /\ file_size < expected_min_size,
                    "truncated")
    IN Verdict(errors \o e8, m7)

\* MTSValidator.validate_file: (is_valid, errors, metadata).  The reads of an
\* opened file raise nothing, so the except branch is never taken.
validate_file(exists, bytes, mts_name) ==
    IF ~exists THEN [valid |-> FALSE, errors |-> <<"missing">>, metadata |-> EmptyMeta]
    ELSE IF Len(bytes) < MinFileSize
         THEN [valid |-> FALSE, errors |-> <<"too_small">>, metadata |-> EmptyMeta]
    ELSE ValidateContent(bytes, mts_name)

\* a size test that only notices a payload that is too long
SizeMismatch_LongOnly(decompressed, expected_size) == Len(decompressed) > expected_size

\* len(decompressed) != expected_size
SizeMismatch(decompressed, expected_size) == Len(decompressed) # expected_size

\* the outcome of check_corruption: (healthy, message); errors are the
\* violations joined into the message of an invalid file
Health(healthy, message, errors) ==
    [healthy |-> healthy, message |-> message, errors |-> errors]

\* check_corruption gets as far as the call of decompress_bulk_data
ReachesDecompress(is_valid, raised, quick) == is_valid /\ ~quick /\ raised = "none"

\* the full check once the data is decompressed: lines 111-120
FullCheck(decompressed, expected_size) ==
    IF ~decompressed.ok THEN Health(FALSE, "cannot_decompress", <<>>)
    ELSE IF SizeMismatch(decompressed.data, expected_size)
    THEN Health(FALSE, "size_mismatch", <<>>)
    ELSE Health(TRUE, "healthy_full", <<>>)

\* check_corruption after its call of validate_file, whose result is v;
\* raised is what the parser calls of the full check raise
AfterValidation(v, raised, bytes, quick) ==
    IF ~v.valid THEN Health(FALSE, "invalid", v.errors)
    ELSE IF ~quick
    THEN IF raised # "none"
         THEN Health(FALSE, "full_check_error", <<>>)
         ELSE FullCheck(decompress_bulk_data(extract_compressed_data(bytes)),
                        parse_header(bytes).volume * 4)
    ELSE Health(TRUE, "healthy_quick", <<>>)

\* MTSValidator.check_corruption: (healthy, message)
check_corruption(exists, bytes, mts_name, quick) ==
    AfterValidation(validate_file(exists, bytes, mts_name),
                    get_metadata_raised(bytes), bytes, quick)

\* ----------------------------------------------------------- MTSGenerator
\* A generator call either raises or returns the document's bytes.

Raised(what) == [raised |-> what, out |-> <<>>]

Returned(bytes) == [raised |-> "none", out |-> bytes]

\* the all-air bulk data: node ids (2 bytes each), prob/force, param2
AirBulk(volume) == Zeros(2 * volume) \o Zeros(volume) \o Zeros(volume)

\* the dimension checks that open create_empty_schematic
DimensionsRejected(width, height, length) ==
    IF width <= 0 \/ height <= 0 \/ length <= 0 THEN "ValueError"
    ELSE IF width > MaxU16 \/ height > MaxU16 \/ length > MaxU16 THEN "ValueError"
    ELSE "none"

\* MTSGenerator.create_empty_schematic
create_empty_schematic(width, height, length, version) ==
    LET volume == width * height * length
        bulk_data == AirBulk(volume)
    IN IF DimensionsRejected(width, height, length) # "none"
       THEN Raised(DimensionsRejected(width, height, length))
       ELSE IF ~PackOk(version) THEN Raised("struct.error")
       ELSE Returned(MTSM \o PackH(version)
                     \o PackH(width) \o PackH(height) \o PackH(length)
                     \o Rep(YProbDefault, height)
                     \o PackH(1) \o PackH(3) \o Air
                     \o ZlibCompress(bulk_data, 9))

\* MTSGenerator.create_box: the empty schematic, version 4 (the block
\* replacement is a TODO)
create_box(width, height, length) == create_empty_schematic(width, height, length, 4)

\* the node list of create_from_template: each name length-prefixed
EncodeNodes(nodes) ==
    Concat([i \in 1..Len(nodes) |->
               PackH(Len(Utf8Encode(nodes[i]))) \o Utf8Encode(nodes[i])])

\* the bulk data create_from_template compresses: all air when 'data' is
\* empty, nothing at all otherwise (the population is a TODO: pass)
TemplateBulk(volume, data) == IF data = <<>> THEN AirBulk(volume) ELSE <<>>

\* MTSGenerator.create_from_template: no check of the dimensions or of the
\* length of 'data'; struct.pack raises outside 0..65535
create_from_template(dimensions, nodes, data) ==
    LET width == dimensions[1]
        height == dimensions[2]
        length == dimensions[3]
        volume == width * height * length
        bulk_data == TemplateBulk(volume, data)
    IN IF ~(PackOk(width) /\ PackOk(height) /\ PackOk(length))
       THEN Raised("struct.error")
       ELSE IF ~PackOk(Len(nodes))
               \/ \E i \in 1..Len(nodes) : ~PackOk(Len(Utf8Encode(nodes[i])))
            THEN Raised("struct.error")
       ELSE Returned(MTSM \o PackH(4)
                     \o PackH(width) \o PackH(height) \o PackH(length)
                     \o Rep(YProbDefault, height)
                     \o PackH(Len(nodes)) \o EncodeNodes(nodes)
                     \o ZlibCompress(bulk_data, 6))

\* ------------------------------------------------------------------ state
VARIABLES
    exists,    \* os.path.exists(filepath)
    file,      \* the bytes of the file at filepath
    mts_name,  \* filepath.lower().endswith('.mts')
    edited,    \* the file is no longer what the generator returned
    gen,       \* the last MTSGenerator call: its arguments and its outcome
    last       \* the last MTSParser / MTSValidator call and what it returned

vars == <<exists, file, mts_name, edited, gen, last>>

NoCall == [op |-> "none"]

\* ----------------------------------------------------------------- inputs
\* dimensions a generator is called with: legal ones and the illegal neighbours
DimInputs == {-1, 0} \cup (1..MaxDim) \cup {MaxU16 + 1}

\* versions create_empty_schematic is called with
VersionInputs == SupportedVersions

\* the i-th block name of a template, as code points: 'air', then a name
\* with a two-byte character, alternating
NodeName(i) == IF i % 2 = 1 THEN Air ELSE <<233>>

\* template['nodes']: the first n names, n up to MaxNodes
Palettes == {[i \in 1..n |-> NodeName(i)] : n \in 0..MaxNodes}

\* one (node_index, prob_force, param2) triple
Voxel == <<0, 127, 0>>

\* template['data']
DataInputs == {Rep(Voxel, n) : n \in 0..MaxData}

\* the bytes a damaged file may hold where it was overwritten ('c')
JunkBytes == {99}

Init ==
    /\ exists = FALSE
    /\ file = <<>>
    /\ mts_name = TRUE
    /\ edited = FALSE
    /\ gen = NoCall
    /\ last = NoCall

\* ---------------------------------------------------------------- actions
\* A run makes one generator call.  The caller writes the bytes it returns to
\* a fresh path ending in .mts; when the generator raises, nothing is written.
Store(result) ==
    /\ exists' = (result.raised = "none")
    /\ file' = result.out
    /\ mts_name' = TRUE
    /\ edited' = FALSE
    /\ last' = NoCall

CreateEmptySchematic ==
    /\ gen = NoCall
    /\ \E w \in DimInputs, h \in DimInputs, l \in DimInputs, v \in VersionInputs :
        LET result == create_empty_schematic(w, h, l, v)
        IN /\ gen' = [op |-> "create_empty_schematic", dimensions |-> <<w, h, l>>,
                      version |-> v, nodes |-> <<Air>>, data |-> <<>>,
                      result |-> result]
           /\ Store(result)

CreateBox ==
    /\ gen = NoCall
    /\ \E w \in DimInputs, h \in DimInputs, l \in DimInputs :
        LET result == create_box(w, h, l)
        IN /\ gen' = [op |-> "create_box", dimensions |-> <<w, h, l>>,
                      version |-> 4, nodes |-> <<Air>>, data |-> <<>>,
                      result |-> result]
           /\ Store(result)

CreateFromTemplate ==
    /\ gen = NoCall
    /\ \E w \in DimInputs, h \in DimInputs, l \in DimInputs,
       nodes \in Palettes, data \in DataInputs :
        LET result == create_from_template(<<w, h, l>>, nodes, data)
        IN /\ gen' = [op |-> "create_from_template", dimensions |-> <<w, h, l>>,
                      version |-> 4, nodes |-> nodes, data |-> data,
                      result |-> result]
           /\ Store(result)

\* The environment: a stored file is renamed, cut short or damaged, once.
Rename ==
    /\ exists /\ ~edited
    /\ mts_name' = FALSE
    /\ edited' = TRUE
    /\ last' = NoCall
    /\ UNCHANGED <<exists, file, gen>>

Truncate ==
    /\ exists /\ ~edited
    /\ \E n \in 0..(Len(file) - 1) : file' = SubSeq(file, 1, n)
    /\ edited' = TRUE
    /\ last' = NoCall
    /\ UNCHANGED <<exists, mts_name, gen>>

Overwrite ==
    /\ exists /\ ~edited
    /\ \E i \in 1..Len(file), b \in JunkBytes : file' = [file EXCEPT ![i] = b]
    /\ edited' = TRUE
    /\ last' = NoCall
    /\ UNCHANGED <<exists, mts_name, gen>>

\* A call: what it raised, or what it returned.  A parser call on a path
\* that does not exist raises from open(); the validator tests the path first
\* and reads inside try/except, so nothing leaves it.
Call(op, exc, res) ==
    /\ last' = IF ~exists /\ op # "validate_file"
               THEN [op |-> op, raised |-> "FileNotFoundError"]
               ELSE IF exc # "none" THEN [op |-> op, raised |-> exc]
               ELSE [op |-> op, raised |-> "none", res |-> res]
    /\ UNCHANGED <<exists, file, mts_name, edited, gen>>

ParseHeader == Call("parse_header", parse_header_raised(file), parse_header(file))

ParseYprobs == Call("parse_yprobs", parse_header_raised(file), parse_yprobs(file))

ParseNodelist == Call("parse_nodelist", parse_nodelist_raised(file), parse_nodelist(file))

GetMetadata == Call("get_metadata", get_metadata_raised(file), get_metadata(file))

ExtractAndDecompress ==
    Call("decompress_bulk_data", get_metadata_raised(file),
         decompress_bulk_data(extract_compressed_data(file)))

ValidateFile == Call("validate_file", "none", validate_file(exists, file, mts_name))

\* check_corruption in either mode; `inflated` records whether the call got
\* as far as decompress_bulk_data
Corruption(quick, inflated, res) ==
    /\ last' = [op |-> "check_corruption", raised |-> "none", quick |-> quick,
                inflated |-> inflated, res |-> res]
    /\ UNCHANGED <<exists, file, mts_name, edited, gen>>

CheckCorruption ==
    \E quick \in BOOLEAN :
        Corruption(quick,
                   ReachesDecompress(validate_file(exists, file, mts_name).valid,
                                     get_metadata_raised(file), quick),
                   check_corruption(exists, file, mts_name, quick))

Next ==
    \/ CreateEmptySchematic
    \/ CreateBox
    \/ CreateFromTemplate
    \/ Rename
    \/ Truncate
    \/ Overwrite
    \/ ParseHeader
    \/ ParseYprobs
    \/ ParseNodelist
    \/ GetMetadata
    \/ ExtractAndDecompress
    \/ ValidateFile
    \/ CheckCorruption

Spec == Init /\ [][Next]_vars

\* ----------------------------------------------------------------- claims
\* what the claims read off the state

\* validate_file has just returned
Validated == last.op = "validate_file"

\* the violation list validate_file returned holds a violation of category c
HasViolation(c) == \E i \in 1..Len(last.res.errors) : last.res.errors[i] = c

\* an existing file of at least 20 bytes
BigEnough == exists /\ Len(file) >= MinFileSize

\* the big-endian 16-bit field at byte offset off of the file
FieldAt(off) == file[off + 1] * 256 + file[off + 2]

\* the generator returned a document and the file still holds exactly it
Pristine == gen.op # "none" /\ gen.result.raised = "none" /\ exists /\ ~edited

\* width * height * length of the generator call
GenVolume == gen.dimensions[1] * gen.dimensions[2] * gen.dimensions[3]

\* C1 as stated: for an existing file of at least 20 bytes, validate_file's
\* validity is true exactly when no violation above warning level was
\* recorded; an extension or unsupported-version violation leaves it true.
C1_Original ==
    (Validated /\ BigEnough) =>
        (last.res.valid <=>
            \A i \in 1..Len(last.res.errors) : last.res.errors[i] \in WarningLevel)

\* C1 amended: for an existing file of at least 20 bytes, validate_file's
\* validity is true exactly when the violation list is empty; a name that
\* does not end in .mts and a version outside {3,4,5} are each recorded and
\* each make the validity false.
C1_ValidIffNoViolation ==
    (Validated /\ BigEnough) =>
        /\ last.res.valid <=> (last.res.errors = <<>>)
        /\ ~mts_name => (HasViolation("extension") /\ ~last.res.valid)
        /\ FieldAt(4) \notin {3, 4, 5} => (HasViolation("version") /\ ~last.res.valid)

\* C1's case: a sound document under a name that does not end in .mts
C1_Witness ==
    /\ Validated /\ BigEnough
    /\ ~mts_name
    /\ last.res.errors = <<"extension">>
    /\ ~last.res.valid

\* C2 as stated: the bytes create_empty_schematic returns for legal
\* dimensions and a version in {3,4,5}, stored under a name ending in .mts,
\* are accepted by validate_file with an empty violation list.
C2_EmptyIsValid ==
    (Validated /\ Pristine /\ gen.op = "create_empty_schematic") =>
        (last.res.valid /\ last.res.errors = <<>>)

\* the dimensions of the generator call are all within 1..65535
GenDimsLegal == \A i \in 1..3 : gen.dimensions[i] >= 1 /\ gen.dimensions[i] <= MaxU16

\* the document create_from_template returned for legal dimensions and no
\* voxel data is still the file
C3_Applicable ==
    /\ Pristine /\ gen.op = "create_from_template"
    /\ gen.data = <<>> /\ GenDimsLegal

\* C3: round trip.  For legal dimensions, any palette and no voxel data,
\* get_metadata on the bytes create_from_template returned yields the same
\* width, height and length, volume = width*height*length, height
\* y-probability values, the same palette in the same order, and the data
\* section decompresses to volume*4 zero bytes.
C3_RoundTrip ==
    /\ (last.op = "get_metadata" /\ C3_Applicable) =>
          /\ last.res.header.width = gen.dimensions[1]
          /\ last.res.header.height = gen.dimensions[2]
          /\ last.res.header.length = gen.dimensions[3]
          /\ last.res.header.volume = GenVolume
          /\ last.res.yprobs.count = gen.dimensions[2]
          /\ last.res.yprobs.values = Rep(YProbDefault, gen.dimensions[2])
          /\ last.res.nodelist.nodes = gen.nodes
          /\ last.res.nodelist.count = Len(gen.nodes)
    /\ (last.op = "decompress_bulk_data" /\ C3_Applicable) =>
          /\ last.res.ok
          /\ last.res.data = Zeros(GenVolume * 4)

\* C3's case: a template of two names, one of them not ASCII, decoded
C3_Witness ==
    /\ last.op = "get_metadata" /\ C3_Applicable
    /\ gen.dimensions = <<2, 1, 2>>
    /\ gen.nodes = <<Air, <<233>>>>
    /\ last.res.nodelist.nodes = <<Air, <<233>>>>

\* C4 as stated: the bulk payload compressed into any document a generator
\* returns is exactly volume*4 bytes long.
C4_PayloadSize ==
    (last.op = "decompress_bulk_data" /\ Pristine /\ GenDimsLegal) =>
        (last.res.ok /\ Len(last.res.data) = GenVolume * 4)

\* C5 as stated: create_from_template with non-empty voxel data whose length
\* differs from the volume fails with ShapeError and returns no document.
C5_ShapeChecked ==
    (gen.op = "create_from_template" /\ GenDimsLegal
     /\ gen.data # <<>> /\ Len(gen.data) # GenVolume) =>
        (gen.result.raised = "ShapeError" /\ gen.result.out = <<>>)

\* C6 as stated: create_empty_schematic and create_from_template fail
\* whenever a dimension is <= 0 or > 65535, and no document a generator
\* returned holds a zero dimension in its header.
C6_RangeChecked ==
    /\ (gen.op \in {"create_empty_schematic", "create_from_template"}
        /\ ~GenDimsLegal) => gen.result.raised # "none"
    /\ Pristine => (FieldAt(6) # 0 /\ FieldAt(8) # 0 /\ FieldAt(10) # 0)

\* the header's height field promises more y-probability bytes than the
\* file holds after offset 12
YprobsCutShort == Len(file) >= 12 /\ Len(file) - 12 < FieldAt(8)

\* C7 as stated: whenever the header declares height h and fewer than h
\* bytes follow offset 12 (height 10 with 5 bytes present, say),
\* validate_file returns false and lists the y-probability completeness
\* violation.
C7_Original ==
    (Validated /\ exists /\ YprobsCutShort) =>
        (~last.res.valid /\ HasViolation("yprobs_incomplete"))

\* C7 amended: the same for every such file of at least 20 bytes; a shorter
\* file is invalid as well, but its list holds the too-small violation alone.
C7_TruncationDetected ==
    /\ (Validated /\ BigEnough /\ YprobsCutShort) =>
          (~last.res.valid /\ HasViolation("yprobs_incomplete"))
    /\ (Validated /\ exists /\ Len(file) < MinFileSize) =>
          (~last.res.valid /\ last.res.errors = <<"too_small">>)

\* C7's case: a file of 20 bytes or more whose height field asks for more
\* bytes than are left, validated
C7_Witness ==
    /\ Validated /\ BigEnough /\ YprobsCutShort
    /\ HasViolation("yprobs_incomplete")

\* C8: signature mismatch.  For a file of at least 20 bytes whose first four
\* bytes are not MTSM, parse_header still returns the version and the three
\* dimensions found at offsets 4, 6, 8, 10 with signature_valid false, and
\* validate_file returns false with a signature violation in its list.
C8_SignatureMismatch ==
    (BigEnough /\ SubSeq(file, 1, 4) # MTSM) =>
        /\ last.op = "parse_header" =>
              /\ last.res.signature_valid = FALSE
              /\ last.res.version = FieldAt(4)
              /\ last.res.width = FieldAt(6)
              /\ last.res.height = FieldAt(8)
              /\ last.res.length = FieldAt(10)
        /\ Validated => (~last.res.valid /\ HasViolation("signature"))

\* C8's case: the header of a document with a damaged signature, parsed
C8_Witness ==
    /\ BigEnough /\ SubSeq(file, 1, 4) # MTSM
    /\ last.op = "parse_header"
    /\ last.res.version = 4 /\ last.res.width = 2

\* the fields of validate_file's metadata that hold numbers
NumberFields == {"version", "dimensions", "volume", "yprobs_length",
                 "node_count", "compressed_data_size"}

\* C9 as stated: for a file of at least 20 bytes whose version is outside
\* {3,4,5}, validate_file lists an unsupported-version violation and its
\* metadata still holds the decoded dimensions, the volume and the decoded
\* palette.
C9_Original ==
    (Validated /\ BigEnough /\ FieldAt(4) \notin {3, 4, 5}) =>
        /\ HasViolation("version")
        /\ "dimensions" \in DOMAIN last.res.metadata
        /\ \E k \in DOMAIN last.res.metadata \ NumberFields :
              last.res.metadata[k] = parse_nodelist(file).nodes

\* C9 amended: ... its metadata still holds the version, the decoded
\* dimensions with the volume, and the node count when its two bytes are
\* present; the palette is no field of validate_file's metadata.
C9_UnsupportedVersion ==
    (Validated /\ BigEnough /\ FieldAt(4) \notin {3, 4, 5}) =>
        /\ HasViolation("version")
        /\ "version" \in DOMAIN last.res.metadata
        /\ last.res.metadata["version"] = FieldAt(4)
        /\ "dimensions" \in DOMAIN last.res.metadata
        /\ last.res.metadata["dimensions"] = <<FieldAt(6), FieldAt(8), FieldAt(10)>>
        /\ "volume" \in DOMAIN last.res.metadata
        /\ last.res.metadata["volume"] = FieldAt(6) * FieldAt(8) * FieldAt(10)
        /\ Len(file) >= 14 + FieldAt(8) =>
              /\ "node_count" \in DOMAIN last.res.metadata
              /\ last.res.metadata["node_count"] = FieldAt(12 + FieldAt(8))
        /\ DOMAIN last.res.metadata \subseteq NumberFields

\* C9's case: a document whose version field was overwritten, validated
C9_Witness ==
    /\ Validated /\ BigEnough
    /\ FieldAt(4) = 99
    /\ HasViolation("version")
    /\ "node_count" \in DOMAIN last.res.metadata

\* C10 as stated: validate_file records the compressed-size violation
\* exactly when the compressed-data section, the bytes from right after the
\* last palette entry to the end of the file (get_metadata's
\* data_section.compressed_size), is longer than 2 * (volume * 4).
C10_CompressedSize ==
    (Validated /\ BigEnough) =>
        (HasViolation("compressed_too_large") <=>
            get_metadata(file).data_section.compressed_size
                > 2 * (last.res.metadata["volume"] * 4))

\* the call `op` has just returned from an existing file
Returned_From(op) == exists /\ last.op = op /\ last.raised = "none"

\* C11 as stated: for every file, whether the declared height puts offset
\* 12 + height past the end or the palette is cut short, the data offset
\* parse_nodelist returns is at most the file size, and get_metadata reports
\* data_section.compressed_size = file size - offset, which is never negative.
C11_SectionNeverNegative ==
    /\ Returned_From("parse_nodelist") => last.res.pos <= Len(file)
    /\ Returned_From("get_metadata") =>
          /\ last.res.data_section.offset <= Len(file)
          /\ last.res.data_section.compressed_size >= 0

\* C12: parsing and validation never raise on structural anomalies.  For
\* every existing file, whatever its content and length, validate_file,
\* get_metadata and check_corruption (quick and full) return a result; and
\* the metadata validate_file returns for a file of at least 20 bytes holds
\* every field it decoded before the first unreadable one: the version, the
\* dimensions and the volume always, the y-probability length when all
\* height bytes are there, the node count when its two bytes are there.
\* (Below 20 bytes validate_file decodes nothing and its metadata is empty.)
C12_NeverRaises ==
    /\ (exists /\ last.op \in {"validate_file", "get_metadata", "check_corruption"})
          => last.raised = "none"
    /\ (Validated /\ BigEnough) =>
          /\ {"version", "dimensions", "volume"} \subseteq DOMAIN last.res.metadata
          /\ last.res.metadata["version"] = FieldAt(4)
          /\ last.res.metadata["dimensions"] = <<FieldAt(6), FieldAt(8), FieldAt(10)>>
          /\ Len(file) >= 12 + FieldAt(8) =>
                /\ "yprobs_length" \in DOMAIN last.res.metadata
                /\ last.res.metadata["yprobs_length"] = FieldAt(8)
          /\ Len(file) >= 14 + FieldAt(8) =>
                /\ "node_count" \in DOMAIN last.res.metadata
                /\ last.res.metadata["node_count"] = FieldAt(12 + FieldAt(8))
    /\ (Validated /\ exists /\ ~BigEnough) => last.res.metadata = EmptyMeta

\* C12's case: get_metadata has returned from a file that ends in the middle
\* of its node count
C12_Witness ==
    /\ Returned_From("get_metadata")
    /\ Len(file) >= 12
    /\ Len(file) = 12 + FieldAt(8) + 1
    /\ last.res.nodelist.nodes = <<>>

\* check_corruption has just returned in the given mode
Checked(quick) == last.op = "check_corruption" /\ last.quick = quick

\* C13: quick versus full mode.  check_corruption with quick=True returns
\* exactly validate_file's verdict and decompresses nothing; with quick=False
\* it returns healthy if and only if validate_file's verdict is valid, the
\* compressed-data section decompresses, and the decompressed length is
\* volume*4 exactly.  Hence a file healthy under the full check is healthy
\* under the quick check.
C13_QuickVersusFull ==
    /\ Checked(TRUE) =>
          /\ last.res.healthy = validate_file(exists, file, mts_name).valid
          /\ ~last.inflated
    /\ Checked(FALSE) =>
          /\ last.res.healthy <=>
                /\ validate_file(exists, file, mts_name).valid
                /\ ZlibDecompress(extract_compressed_data(file)).ok
                /\ Len(ZlibDecompress(extract_compressed_data(file)).data)
                      = FieldAt(6) * FieldAt(8) * FieldAt(10) * 4
          /\ last.res.healthy => check_corruption(exists, file, mts_name, TRUE).healthy
          /\ last.res.healthy => last.inflated

\* C13's case: a file the quick check calls healthy and the full check does
\* not, because its payload has the wrong length
C13_Witness ==
    /\ Checked(FALSE)
    /\ ~last.res.healthy
    /\ last.res.message = "size_mismatch"
    /\ check_corruption(exists, file, mts_name, TRUE).healthy

\* C14 as stated: when fewer than height bytes follow offset 12, parse_yprobs
\* returns the k bytes that were read, not an empty list; the values it
\* returns are always the file's bytes at offsets 12..12+k-1 in order.
C14_YprobsPrefixKept ==
    (Returned_From("parse_yprobs") /\ Len(file) >= 12) =>
        last.res.yprobs = SubSeq(file, 13, Min(12 + FieldAt(8), Len(file)))

\* the violation categories in the order of validate_file's checks
CheckOrder ==
    <<"missing", "too_small", "extension", "signature", "version_unreadable",
      "version", "dimensions_unreadable", "zero_dimension", "dimension_too_large",
      "yprobs_incomplete", "node_count_unreadable", "compressed_too_large",
      "truncated">>

\* the place of a category in that order
Rank(c) == CHOOSE i \in 1..Len(CheckOrder) : CheckOrder[i] = c

\* the violation list follows the order of the checks, each category once
InCheckOrder(errors) ==
    \A i \in 1..Len(errors), j \in 1..Len(errors) :
        i < j => Rank(errors[i]) < Rank(errors[j])

\* every check from the extension to the node count reported exactly when its
\* own condition holds on the file, whatever the other checks found, and the
\* fields read on the way are in the metadata
LaterChecksIndependent ==
    /\ HasViolation("extension") <=> ~mts_name
    /\ HasViolation("signature") <=> SubSeq(file, 1, 4) # MTSM
    /\ HasViolation("version") <=> FieldAt(4) \notin {3, 4, 5}
    /\ HasViolation("zero_dimension") <=>
          (FieldAt(6) = 0 \/ FieldAt(8) = 0 \/ FieldAt(10) = 0)
    /\ HasViolation("yprobs_incomplete") <=> Len(file) < 12 + FieldAt(8)
    /\ HasViolation("node_count_unreadable") <=> Len(file) < 12 + FieldAt(8) + 2
    /\ HasViolation("compressed_too_large") <=>
          last.res.metadata["compressed_data_size"]
              > 2 * (last.res.metadata["volume"] * 4)
    /\ {"version", "dimensions", "volume", "compressed_data_size"}
          \subseteq DOMAIN last.res.metadata

\* C15 as stated: validate_file runs its checks in the fixed order existence
\* and minimum size, extension, signature, version, dimensions, y-probability
\* completeness, node-count readability, compressed-size sanity, truncation,
\* and the violation list is a subsequence of that order; a missing file or
\* one under 20 bytes gets exactly that one violation and empty metadata; a
\* failure of any later check keeps no independent later check from running
\* (the truncation check reports whenever the file is smaller than header +
\* y-probabilities + node count) and discards no metadata.
C15_CheckSequencing ==
    Validated =>
        /\ InCheckOrder(last.res.errors)
        /\ ~BigEnough =>
              /\ last.res.errors = IF exists THEN <<"too_small">> ELSE <<"missing">>
              /\ last.res.metadata = EmptyMeta
              /\ ~last.res.valid
        /\ BigEnough =>
              /\ LaterChecksIndependent
              /\ HasViolation("truncated") <=> Len(file) < 12 + FieldAt(8) + 2

\* the same without the truncation check
C15_ButTruncation ==
    Validated =>
        /\ InCheckOrder(last.res.errors)
        /\ ~BigEnough =>
              /\ last.res.errors = IF exists THEN <<"too_small">> ELSE <<"missing">>
              /\ last.res.metadata = EmptyMeta
        /\ BigEnough => LaterChecksIndependent

====
